---- MODULE Spec2Model ----
(***************************************************************************)
(* Quiz session lifecycle of the poker quiz bot: bot/main.py (handlers and  *)
(* scheduled jobs), bot/quiz.py (QuizManager), bot/score.py (ScoreManager)  *)
(* and bot/persistence.py (load_state / save_state).                        *)
(*                                                                          *)
(* Update handlers run one at a time (Application is built with the default *)
(* concurrent_updates setting); job-queue callbacks run in the same event   *)
(* loop and interleave with a handler only where that handler awaits.       *)
(***************************************************************************)
EXTENDS Integers, Sequences, FiniteSets, TLC

\* ---------------------------------------------------------------- bounds
\* Number of questions in the catalog of the session specification.
NQ == 2
\* Largest catalog explored by the draw specification.
MaxCatalog == 3
\* Cap on the number of ScoreManager.record_answer calls in SpecScore.
MaxScoreCalls == 4

\* ------------------------------------------------------------- constants
\* Python's None for Optional[Question] / question ids (catalog ids are >= 1).
None == 0
\* save_state(active_chats, dm_enabled_users, current_question_id=None)
SaveStateMaxArgs == 3
\* The clock as get_next_quiz_time reads it, with no text rendered from it yet.
Unrendered(hour, minute) == [hour |-> hour, minute |-> minute, time_str |-> << >>]

\* Acting users; user 2 talks to the bot in a private chat (chat id = user id),
\* user 1 sits in group chat -1 together with a member who never answers.
Users == {1, 2}
Chats == {-1, 2}
Options == {0, 1}

ChatType(c) == IF c > 0 THEN "private" ELSE "group"
\* Non-bot participants of a chat.
Members(c) == IF c > 0 THEN {c} ELSE {1, 3}
\* bot.get_chat_member_count: participants plus the bot account itself.
get_chat_member_count(c) == Cardinality(Members(c)) + 1
\* Question.answer: index of the correct option of question q.
Answer(q) == q % 2

EmptyMap == [x \in {} |-> 0]

VARIABLES
    questionsFile,         \* data/questions.json as json.load returns it
    questions,             \* quiz_manager.questions (ids of the catalog)
    used_questions,        \* quiz_manager.used_questions
    current_question,      \* quiz_manager.current_question (id or None)
    user_answers,          \* quiz_manager.user_answers: user_id -> answer_index
    last_question,         \* main.last_question (id or None)
    active_chats,          \* main.active_chats
    dm_enabled_users,      \* main.dm_enabled_users
    active_quiz_messages,  \* main.active_quiz_messages: chat -> question id or None
    stateFile,             \* data/bot_state.json as load_state would return it
    scores,                \* table scores: user_id -> row
    answer_history,        \* table answer_history, in insertion order
    upc,                   \* continuation of the update handler that is awaiting
    jpc,                   \* continuation of the scheduled job that is awaiting
    ev,                    \* what the last completed handler step did
    closed,                \* observer: chats closed by scheduled_explanation (see ClosedAdd)
    draws,                 \* last 2n draws of this QuizManager (draw specification)
    leaders,               \* user ids of the rows the last get_leaderboard call returned
    clock                  \* datetime.now(KST) as read by get_next_quiz_time, and the text rendered from it

vars == <<questionsFile, questions, used_questions, current_question, user_answers, last_question,
          active_chats, dm_enabled_users, active_quiz_messages, stateFile,
          scores, answer_history, upc, jpc, ev, closed, draws, leaders, clock>>

quizVars == <<used_questions, current_question, user_answers>>
scoreVars == <<scores, answer_history>>

\* ------------------------------------------------------------ persistence
\* load_state's default when the file is absent or unreadable.
DefaultState ==
    [active_chats |-> {}, dm_enabled_users |-> {}, current_question_id |-> None]

\* The dict save_state writes.
Snapshot(ac, dm, cq) ==
    [active_chats |-> ac, dm_enabled_users |-> dm, current_question_id |-> cq]

\* Whether a call save_state(...) with nargs positional arguments binds to the
\* three-parameter signature (otherwise Python raises TypeError at the call).
save_state_arity_any(nargs) == TRUE
save_state_arity_ok(nargs) == nargs <= SaveStateMaxArgs

\* The call raises TypeError before the body runs (the write itself is taken
\* to succeed).
save_state_raises(nargs) == ~save_state_arity_ok(nargs)

\* File contents after a call save_state(ac, dm, cq, ...) with nargs arguments.
save_state(nargs, ac, dm, cq) ==
    IF save_state_raises(nargs) THEN stateFile ELSE Snapshot(ac, dm, cq)

\* ------------------------------------------------------------ QuizManager
\* Keys of a record of questions.json that _load_questions reads with q[key]
\* (quiz.py 36-42) and with q.get(key, default) (quiz.py 43-44).
RequiredKeys == {"id", "type", "situation", "hand", "options", "answer", "explanation"}
OptionalKeys == {"terms", "range_key"}

\* A record of questions.json with the keys keyset: "options" holds the number
\* of option labels, "answer" the stored index, "id" the identifier.
CatalogRecord(keyset, id, nopts, answer) ==
    [k \in keyset |-> CASE k = "id" -> id
                        [] k = "options" -> nopts
                        [] k = "answer" -> answer
                        [] OTHER -> 0]

\* The document the questions qs (ids 1..n) of the session specifications
\* were loaded from: complete records, one option label per element of
\* Options, the correct index Answer(q).
CatalogFile(qs) ==
    [i \in 1..Cardinality(qs) |->
        CatalogRecord(RequiredKeys \cup OptionalKeys, i, Cardinality(Options), Answer(i))]

\* _load_questions raises KeyError: some record lacks a key read with q[key].
load_raises(doc) == \E i \in 1..Len(doc) : ~(RequiredKeys \subseteq DOMAIN doc[i])

\* get_random_question: available = questions not yet used.
AvailableAll(qs, used) == qs
Available(qs, used) == qs \ used

\* The set random.choice draws from (cleared and refilled when exhausted).
DrawPool(qs, used) == IF Available(qs, used) = {} THEN qs ELSE Available(qs, used)

\* used_questions after drawing q.
UsedAfterDraw(qs, used, q) ==
    (IF Available(qs, used) = {} THEN {} ELSE used) \cup {q}

\* record_answer: the answer map after the call.
record_answer_map_unchanged(ua, cur, u, a) == ua
record_answer_map(ua, cur, u, a) ==
    IF cur = None THEN ua
    ELSE [x \in (DOMAIN ua) \cup {u} |-> IF x = u THEN a ELSE ua[x]]

\* record_answer: the returned correctness flag.
record_answer_result(cur, a) == IF cur = None THEN FALSE ELSE a = Answer(cur)

\* ----------------------------------------------------------- ScoreManager
\* Row inserted for a user's first answer (total is the literal 1).
FirstRowNoStreak(ok) ==
    [correct |-> IF ok THEN 1 ELSE 0, total |-> 1, streak |-> 0, best_streak |-> 0]
FirstRowNoTotal(ok) ==
    [correct |-> IF ok THEN 1 ELSE 0, total |-> 0,
     streak |-> IF ok THEN 1 ELSE 0, best_streak |-> IF ok THEN 1 ELSE 0]
FirstRow(ok) ==
    [correct |-> IF ok THEN 1 ELSE 0, total |-> 1,
     streak |-> IF ok THEN 1 ELSE 0, best_streak |-> IF ok THEN 1 ELSE 0]

Max(a, b) == IF a >= b THEN a ELSE b

\* Row written by the UPDATE for a user that already has a row.
UpdatedRowBestIsStreak(row, ok) ==
    LET correct == IF ok THEN row.correct + 1 ELSE Max(0, row.correct - 1)
        streak  == IF ok THEN row.streak + 1 ELSE 0
    IN [correct |-> correct, total |-> row.total + 1,
        streak |-> streak, best_streak |-> streak]
UpdatedRowNoPenalty(row, ok) ==
    LET correct == IF ok THEN row.correct + 1 ELSE row.correct
        streak  == IF ok THEN row.streak + 1 ELSE 0
    IN [correct |-> correct, total |-> row.total + 1,
        streak |-> streak, best_streak |-> Max(row.best_streak, streak)]
UpdatedRow(row, ok) ==
    LET correct == IF ok THEN row.correct + 1 ELSE Max(0, row.correct - 1)
        streak  == IF ok THEN row.streak + 1 ELSE 0
    IN [correct |-> correct, total |-> row.total + 1,
        streak |-> streak, best_streak |-> Max(row.best_streak, streak)]

\* ScoreManager.record_answer: the scores table after the call.
ScoresAfter(sc, u, ok) ==
    [x \in (DOMAIN sc) \cup {u} |->
        IF x = u THEN (IF u \in DOMAIN sc THEN UpdatedRow(sc[u], ok) ELSE FirstRow(ok))
        ELSE sc[x]]

\* ScoreManager.record_answer: the answer_history table after the call.
HistoryAfterCorrectOnly(h, u, q, a, ok) ==
    IF ok THEN Append(h, [user_id |-> u, question_id |-> q, answer |-> a, correct |-> ok])
    ELSE h
HistoryAfter(h, u, q, a, ok) ==
    Append(h, [user_id |-> u, question_id |-> q, answer |-> a, correct |-> ok])

\* get_leaderboard: row a sorts before row b (ORDER BY correct DESC, total ASC).
SortsBeforeTotalDesc(a, b) ==
    a.correct > b.correct \/ (a.correct = b.correct /\ a.total > b.total)
SortsBefore(a, b) ==
    a.correct > b.correct \/ (a.correct = b.correct /\ a.total < b.total)

Min(a, b) == IF a <= b THEN a ELSE b

\* get_leaderboard: the sequences of user ids the query may return for the
\* table sc (rows with equal keys come in an order SQLite is free to choose).
Leaderboards(sc, limit) ==
    LET n == Cardinality(DOMAIN sc)
        orders == {p \in [1..n -> DOMAIN sc] :
                     /\ \A i, j \in 1..n : i # j => p[i] # p[j]
                     /\ \A i, j \in 1..n : i < j => ~SortsBefore(sc[p[j]], sc[p[i]])}
    IN {SubSeq(p, 1, Min(limit, n)) : p \in orders}

\* ------------------------------------------------------------------ events
\* op: handler; chat: its chat; reply: its outcome; explained / posted:
\* question whose explanation / prompt the handler delivered.
\* scored: the arguments of the handler's call of ScoreManager.record_answer.
\* aborted: the handler ended with an exception it did not catch.
Ev(op, c, reply, explained, posted, scored) ==
    [op |-> op, chat |-> c, reply |-> reply, explained |-> explained,
     posted |-> posted, scored |-> scored, aborted |-> FALSE]

\* The event e of a handler that an uncaught exception ended.
Aborted(e) == [e EXCEPT !.aborted = TRUE]

\* The arguments of a call score_manager.record_answer(u, username, q, a, ok).
ScoreCall(u, q, a, ok) ==
    [user_id |-> u, question_id |-> q, answer |-> a, correct |-> ok]
NoCall == [user_id |-> None, question_id |-> None, answer |-> None, correct |-> FALSE]

IdleU == [pc |-> "idle", chat |-> None, question |-> None, branch |-> ""]
IdleJ == [pc |-> "idle", todo |-> {}, chat |-> None, question |-> None]

NoChatOpen == [c \in Chats |-> None]

\* The observer closed: while on, the chats whose session for the current
\* question scheduled_explanation has closed since the question was drawn.
ClosedAdd(c) == IF closed.on THEN [closed EXCEPT !.chats = @ \cup {c}] ELSE closed
ClosedReset == [closed EXCEPT !.chats = {}]

\* State right after module import of main.py with no state file present.
InitCommon ==
    /\ used_questions = {}
    /\ current_question = None
    /\ user_answers = EmptyMap
    /\ last_question = None
    /\ active_chats = {}
    /\ dm_enabled_users = {}
    /\ active_quiz_messages = NoChatOpen
    /\ scores = EmptyMap
    /\ answer_history = << >>
    /\ upc = IdleU
    /\ jpc = IdleJ
    /\ ev = Ev("init", None, "", None, None, NoCall)
    /\ draws = << >>
    /\ leaders = << >>

Init ==
    /\ questions = 1..NQ
    /\ questionsFile = CatalogFile(questions)
    /\ closed = [on |-> FALSE, chats |-> {}]
    /\ stateFile = DefaultState
    /\ clock = Unrendered(0, 0)
    /\ InitCommon

\* ------------------------------------------------------- command handlers
\* start (main.py 74-106): register a DM user or a group chat, then snapshot.
start(c) ==
    /\ upc.pc = "idle"
    /\ active_chats' = IF ChatType(c) = "private" THEN active_chats
                       ELSE active_chats \cup {c}
    /\ dm_enabled_users' = IF ChatType(c) = "private" THEN dm_enabled_users \cup {c}
                           ELSE dm_enabled_users
    /\ stateFile' = save_state(2, active_chats', dm_enabled_users', None)
    /\ ev' = Ev("start", c, "ok", None, None, NoCall)
    /\ UNCHANGED <<clock, questionsFile, questions, quizVars, last_question, active_quiz_messages,
                   scoreVars, upc, jpc, closed, draws, leaders>>

\* quiz_command (main.py 246-262): which question the request presents.
QuizBranchNoGlobal(c) ==
    IF active_quiz_messages[c] # None THEN "chat" ELSE "new"
QuizBranch(c) ==
    IF active_quiz_messages[c] # None THEN "chat"
    ELSE IF current_question # None THEN "global"
    ELSE "new"

\* quiz_command up to the await inside send_quiz (main.py 239-263, 195-223).
quiz_command(c) ==
    /\ upc.pc = "idle"
    /\ active_chats' = active_chats \cup {c}
    /\ stateFile' = save_state(2, active_chats', dm_enabled_users, None)
    /\ CASE QuizBranch(c) = "chat" ->
              /\ upc' = [pc |-> "send_quiz", chat |-> c,
                         question |-> active_quiz_messages[c], branch |-> "chat"]
              /\ UNCHANGED <<quizVars, closed>>
         [] QuizBranch(c) = "global" ->
              /\ upc' = [pc |-> "send_quiz", chat |-> c,
                         question |-> current_question, branch |-> "global"]
              /\ UNCHANGED <<quizVars, closed>>
         [] OTHER ->
              \E q \in DrawPool(questions, used_questions) :
                /\ used_questions' = UsedAfterDraw(questions, used_questions, q)
                /\ current_question' = q
                /\ user_answers' = EmptyMap
                /\ closed' = ClosedReset
                /\ upc' = [pc |-> "send_quiz", chat |-> c, question |-> q,
                           branch |-> "new"]
    /\ UNCHANGED <<clock, questionsFile, questions, last_question, dm_enabled_users, active_quiz_messages,
                   scoreVars, jpc, ev, draws, leaders>>

\* send_quiz returns to quiz_command (main.py 218-236, 263-272): the prompt
\* was sent (ok) or the transport failed; a newly drawn question is saved.
quiz_command_sent ==
    /\ upc.pc = "send_quiz"
    /\ \E ok \in BOOLEAN :
        LET c == upc.chat
            q == upc.question
            saves == upc.branch = "new"
        IN /\ active_quiz_messages' =
                IF ok THEN [active_quiz_messages EXCEPT ![c] = q]
                ELSE active_quiz_messages
           /\ stateFile' = IF saves
                           THEN save_state(6, active_chats, dm_enabled_users, q)
                           ELSE stateFile
           /\ ev' = IF saves /\ save_state_raises(6)
                    THEN Aborted(Ev("quiz_command", c, upc.branch, None, IF ok THEN q ELSE None, NoCall))
                    ELSE Ev("quiz_command", c, upc.branch, None, IF ok THEN q ELSE None, NoCall)
    /\ upc' = IdleU
    /\ UNCHANGED <<clock, questionsFile, questions, quizVars, last_question, active_chats,
                   dm_enabled_users, scoreVars, jpc, closed, draws, leaders>>

\* handle_answer (main.py 302-305): the already-answered check.
NeverAnswered(ua, u) == FALSE
AlreadyAnswered(ua, u) == u \in DOMAIN ua

\* handle_answer (main.py 292-305): the verdict on an answer of user u for
\* question qid arriving in chat c.
AnswerReplyAnyQuestion(c, u, qid) ==
    IF active_quiz_messages[c] = None THEN "ended"
    ELSE IF AlreadyAnswered(user_answers, u) THEN "already"
    ELSE "accepted"
AnswerReply(c, u, qid) ==
    IF active_quiz_messages[c] = None \/ active_quiz_messages[c] # qid THEN "ended"
    ELSE IF AlreadyAnswered(user_answers, u) THEN "already"
    ELSE "accepted"

\* handle_answer after save_state returned (main.py 325-394): early close
\* when everybody answered, then feedback.
AnswerTail(c, u, qid, a, current_q, ua1, is_correct, file1) ==
    \E mcOK, explOK, sendOK, dmOK \in BOOLEAN :
        LET expected_answers == get_chat_member_count(c) - 1
            current_answers == Cardinality(DOMAIN ua1)
            early == mcOK /\ current_answers >= expected_answers /\ expected_answers > 0
        IN /\ dm_enabled_users' =
                IF u \in dm_enabled_users /\ ~dmOK THEN dm_enabled_users \ {u}
                ELSE dm_enabled_users
           /\ IF early /\ explOK
              THEN \E nq \in DrawPool(questions, used_questions) :
                    /\ last_question' = current_q
                    /\ used_questions' = UsedAfterDraw(questions, used_questions, nq)
                    /\ current_question' = nq
                    /\ user_answers' = EmptyMap
                    /\ closed' = ClosedReset
                    /\ IF save_state_raises(6)
                       THEN /\ stateFile' = file1
                            /\ UNCHANGED active_quiz_messages
                            /\ ev' = Ev("answer", c, "accepted", current_q, None, ScoreCall(u, qid, a, is_correct))
                       ELSE /\ stateFile' = Snapshot(active_chats, dm_enabled_users, nq)
                            /\ active_quiz_messages' =
                                 IF sendOK THEN [active_quiz_messages EXCEPT ![c] = nq]
                                 ELSE active_quiz_messages
                            /\ ev' = Ev("answer", c, "accepted", current_q, IF sendOK THEN nq ELSE None, ScoreCall(u, qid, a, is_correct))
              ELSE /\ user_answers' = ua1
                   /\ stateFile' = file1
                   /\ ev' = Ev("answer", c, "accepted", None, None, ScoreCall(u, qid, a, is_correct))
                   /\ UNCHANGED <<used_questions, current_question, last_question,
                                  active_quiz_messages, closed>>

\* handle_answer (main.py 275-396). The call score_manager.record_answer
\* (main.py 309-315) goes to the ScoreManager's own database, which no handler
\* of this module reads back: its arguments are kept in ev.scored, and the
\* tables are advanced from such calls by score_record_answer (SpecScore).
handle_answer(c, u, qid, a) ==
    /\ upc.pc = "idle"
    /\ IF AnswerReply(c, u, qid) = "ended"
       THEN /\ ev' = Ev("answer", c, "ended", None, None, NoCall)
            /\ UNCHANGED <<quizVars, last_question, dm_enabled_users,
                           active_quiz_messages, stateFile, scoreVars, closed>>
       ELSE IF AnswerReply(c, u, qid) = "already"
       THEN /\ ev' = Ev("answer", c, "already", None, None, NoCall)
            /\ UNCHANGED <<quizVars, last_question, dm_enabled_users,
                           active_quiz_messages, stateFile, scoreVars, closed>>
       ELSE LET current_q == active_quiz_messages[c]
                ua1 == record_answer_map(user_answers, current_question, u, a)
                is_correct == record_answer_result(current_question, a)
            IN /\ UNCHANGED scoreVars
               /\ IF save_state_raises(5)
                    THEN /\ user_answers' = ua1
                         /\ ev' = Aborted(Ev("answer", c, "accepted", None, None, ScoreCall(u, qid, a, is_correct)))
                         /\ UNCHANGED <<used_questions, current_question,
                                        last_question, dm_enabled_users,
                                        active_quiz_messages, stateFile, closed>>
                    ELSE AnswerTail(c, u, qid, a, current_q, ua1, is_correct,
                                    Snapshot(active_chats, dm_enabled_users, current_q))
    /\ UNCHANGED <<clock, questionsFile, questions, active_chats, upc, jpc, draws, leaders>>

\* handle_cancel_button (main.py 399-418): the pressed quiz message is deleted;
\* isActive says whether it is the message recorded in active_quiz_messages.
handle_cancel_button(c, isActive) ==
    /\ upc.pc = "idle"
    /\ isActive => active_quiz_messages[c] # None
    /\ \E ok \in BOOLEAN :
        /\ active_quiz_messages' =
             IF ok /\ isActive THEN [active_quiz_messages EXCEPT ![c] = None]
             ELSE active_quiz_messages
        /\ ev' = Ev("cancel", c, IF ok THEN "deleted" ELSE "failed", None, None, NoCall)
    /\ UNCHANGED <<clock, questionsFile, questions, quizVars, last_question, active_chats,
                   dm_enabled_users, stateFile, scoreVars, upc, jpc, closed, draws, leaders>>

\* explain_command (main.py 520-537).
explain_command(c) ==
    /\ upc.pc = "idle"
    /\ \E ok \in BOOLEAN :
        ev' = IF last_question # None
              THEN Ev("explain", c, IF ok THEN "explanation" ELSE "failed", IF ok THEN last_question ELSE None, None, NoCall)
              ELSE Ev("explain", c, IF current_question # None THEN "no_last" ELSE "nothing", None, None, NoCall)
    /\ UNCHANGED <<clock, questionsFile, questions, quizVars, last_question, active_chats,
                   dm_enabled_users, active_quiz_messages, stateFile, scoreVars,
                   upc, jpc, closed, draws, leaders>>

\* ---------------------------------------------------------- scheduled jobs
\* scheduled_quiz (main.py 433-460): remember the previous question, draw the
\* shared question, snapshot, then post it to every active chat.
scheduled_quiz ==
    /\ jpc.pc = "idle"
    /\ last_question' = IF current_question # None THEN current_question
                        ELSE last_question
    /\ \E q \in DrawPool(questions, used_questions) :
        /\ used_questions' = UsedAfterDraw(questions, used_questions, q)
        /\ current_question' = q
        /\ user_answers' = EmptyMap
        /\ closed' = ClosedReset
        /\ IF save_state_raises(6)
           THEN /\ ev' = Aborted(Ev("scheduled_quiz", None, "raised", None, None, NoCall))
                /\ UNCHANGED <<stateFile, active_quiz_messages>>
           ELSE /\ stateFile' = Snapshot(active_chats, dm_enabled_users, q)
                /\ \E sent \in SUBSET active_chats :
                     /\ active_quiz_messages' =
                          [c \in Chats |-> IF c \in sent THEN q
                                           ELSE active_quiz_messages[c]]
                     /\ ev' = Ev("scheduled_quiz", None, "ok", None, IF sent # {} THEN q ELSE None, NoCall)
    /\ UNCHANGED <<clock, questionsFile, questions, active_chats, dm_enabled_users, scoreVars, upc, jpc,
                   draws, leaders>>

\* The loop of scheduled_explanation over the chats todo, up to its next await
\* (main.py 467-474, 481-512): chats iterated before the next chat with an
\* open posted question have none and are skipped; set iteration order is
\* arbitrary.
ExplanationAdvance(todo) ==
    \/ /\ \A x \in todo : active_quiz_messages[x] = None
       /\ jpc' = IdleJ
    \/ \E c \in todo : \E skipped \in SUBSET (todo \ {c}) :
         /\ active_quiz_messages[c] # None
         /\ \A x \in skipped : active_quiz_messages[x] = None
         /\ jpc' = [pc |-> "send", todo |-> todo \ ({c} \cup skipped),
                    chat |-> c, question |-> active_quiz_messages[c]]

\* scheduled_explanation (main.py 463-474) up to its first await.
scheduled_explanation ==
    /\ jpc.pc = "idle"
    /\ ExplanationAdvance(active_chats)
    /\ UNCHANGED <<clock, questionsFile, questions, quizVars, last_question, active_chats,
                   dm_enabled_users, active_quiz_messages, stateFile, scoreVars,
                   upc, ev, closed, draws, leaders>>

\* The chats the for loop of scheduled_explanation still visits after the
\* send to one chat succeeded (ok) or raised: the try/except sits inside the
\* loop (main.py 467-478).
RemainingAfterAbort(todo, ok) == IF ok THEN todo ELSE {}
RemainingAfter(todo, ok) == todo

\* send_explanation returns (main.py 474-478): on success the chat's entry is
\* deleted (a KeyError for a vanished entry is caught like a transport error);
\* the loop then runs on to its next await.
explanation_sent ==
    /\ jpc.pc = "send"
    /\ \E ok \in BOOLEAN :
        LET c == jpc.chat
            q == jpc.question
        IN /\ active_quiz_messages' =
                IF ok THEN [active_quiz_messages EXCEPT ![c] = None]
                ELSE active_quiz_messages
           /\ closed' = IF ok /\ q = current_question THEN ClosedAdd(c)
                        ELSE closed
           /\ ev' = Ev("scheduled_explanation", c,
                       IF ok THEN "explanation" ELSE "failed",
                       IF ok THEN q ELSE None, None, NoCall)
           /\ ExplanationAdvance(RemainingAfter(jpc.todo, ok))
    /\ UNCHANGED <<clock, questionsFile, questions, quizVars, last_question, active_chats,
                   dm_enabled_users, stateFile, scoreVars, upc, draws, leaders>>

\* ---------------------------------------------------------------- restart
\* _state.get(key, default) on the dict load_state returned.
Get(f, k, d) == IF k \in DOMAIN f THEN f[k] ELSE d

\* Keys of the loaded JSON whose value is not of the JSON type save_state
\* writes, e.g. null or a number for a list ("top": the document itself is
\* not an object).
Malformed(f) == Get(f, "malformed", {})

\* The values main.py converts while restoring: _state.get on the document,
\* set(...) of the two lists and of used_questions, .items() and int(k) on
\* user_answers (main.py 37-47). The two question ids are only compared.
Converted(f) ==
    {"top", "active_chats", "dm_enabled_users", "used_questions", "user_answers"}

\* Importing main.py raises on the loaded document f.
restore_raises(f) == Malformed(f) \cap Converted(f) # {}

\* The question a stored id restores to (main.py 50-64).
RestoredQuestion(f, k) ==
    IF k \in Malformed(f) THEN None
    ELSE IF Get(f, k, None) \in questions THEN Get(f, k, None) ELSE None

\* Module-level restore of main.py (33-64) from what load_state returns. The
\* file written by save_state has no "used_questions", "user_answers" or
\* "last_question_id" key, so after a save those take their defaults.
Restart ==
    /\ IF restore_raises(stateFile)
       THEN /\ ev' = Aborted(Ev("restart", None, "raised", None, None, NoCall))
            /\ active_chats' = {}
            /\ dm_enabled_users' = {}
            /\ used_questions' = {}
            /\ user_answers' = EmptyMap
            /\ current_question' = None
            /\ last_question' = None
       ELSE /\ ev' = Ev("restart", None, "", None, None, NoCall)
            /\ active_chats' = Get(stateFile, "active_chats", {})
            /\ dm_enabled_users' = Get(stateFile, "dm_enabled_users", {})
            /\ used_questions' = Get(stateFile, "used_questions", {})
            /\ user_answers' = Get(stateFile, "user_answers", EmptyMap)
            /\ current_question' = RestoredQuestion(stateFile, "current_question_id")
            /\ last_question' = RestoredQuestion(stateFile, "last_question_id")
    /\ active_quiz_messages' = NoChatOpen
    /\ upc' = IdleU
    /\ jpc' = IdleJ
    /\ UNCHANGED <<clock, questionsFile, questions, stateFile, scoreVars, closed, draws, leaders>>

Next ==
    \/ \E c \in Chats : start(c)
    \/ \E c \in Chats : quiz_command(c)
    \/ quiz_command_sent
    \/ \E c \in Chats, u \in Users, q \in questions, a \in Options :
         u \in Members(c) /\ handle_answer(c, u, q, a)
    \/ \E c \in Chats, isActive \in BOOLEAN : handle_cancel_button(c, isActive)
    \/ \E c \in Chats : explain_command(c)
    \/ scheduled_quiz
    \/ scheduled_explanation
    \/ explanation_sent
    \/ Restart

Spec == Init /\ [][Next]_vars

\* The same program observed with closed switched on.
InitClosed ==
    /\ questions = 1..NQ
    /\ questionsFile = CatalogFile(questions)
    /\ closed = [on |-> TRUE, chats |-> {}]
    /\ stateFile = DefaultState
    /\ clock = Unrendered(0, 0)
    /\ InitCommon

SpecClosed == InitClosed /\ [][Next]_vars

\* ------------------------------------------------- draw specification
\* A QuizManager over a catalog of 1..MaxCatalog questions on which only
\* get_random_question is called; draws keeps the last 2n draws, each with
\* whether it was made from the complete catalog (start of a cycle).
InitDraw ==
    /\ questions \in {1..n : n \in 1..MaxCatalog}
    /\ questionsFile = CatalogFile(questions)
    /\ closed = [on |-> FALSE, chats |-> {}]
    /\ stateFile = DefaultState
    /\ clock = Unrendered(0, 0)
    /\ InitCommon

Slide(d, x, len) == IF Len(d) < len THEN Append(d, x) ELSE Append(Tail(d), x)

\* get_random_question (quiz.py 95-107).
get_random_question ==
    /\ \E q \in DrawPool(questions, used_questions) :
        /\ used_questions' = UsedAfterDraw(questions, used_questions, q)
        /\ current_question' = q
        /\ draws' = Slide(draws,
                          [id |-> q,
                           fresh |-> DrawPool(questions, used_questions) = questions],
                          2 * Cardinality(questions))
    /\ user_answers' = EmptyMap
    /\ UNCHANGED <<clock, questionsFile, questions, last_question, active_chats, dm_enabled_users,
                   active_quiz_messages, stateFile, scoreVars, upc, jpc, ev, closed,
                   leaders>>

NextDraw == get_random_question

SpecDraw == InitDraw /\ [][NextDraw]_vars

\* ------------------------------------------------ score specification
\* ScoreManager.record_answer (score.py 37-76) called with arbitrary users
\* and correctness flags.
score_record_answer(u, q, a, ok) ==
    /\ Len(answer_history) < MaxScoreCalls
    /\ scores' = ScoresAfter(scores, u, ok)
    /\ answer_history' = HistoryAfter(answer_history, u, q, a, ok)
    /\ UNCHANGED <<clock, questionsFile, questions, quizVars, last_question, active_chats,
                   dm_enabled_users, active_quiz_messages, stateFile, upc, jpc,
                   ev, closed, draws, leaders>>

NextScore ==
    \E u \in Users, q \in questions, ok \in BOOLEAN :
        score_record_answer(u, q, IF ok THEN Answer(q) ELSE 1 - Answer(q), ok)

SpecScore == Init /\ [][NextScore]_vars
\* ------------------------------------------ leaderboard specification
\* Largest LIMIT passed to get_leaderboard.
MaxLimit == 3
\* Users with a row in the tables of the leaderboard specification.
BoardUsers == {1, 2, 3}

\* ScoreManager.get_leaderboard (score.py 78-97).
get_leaderboard(limit) ==
    /\ leaders' \in Leaderboards(scores, limit)
    /\ UNCHANGED <<clock, questionsFile, questions, quizVars, last_question, active_chats,
                   dm_enabled_users, active_quiz_messages, stateFile, scoreVars,
                   upc, jpc, ev, closed, draws>>

\* record_answer calls of three users build the table; get_leaderboard
\* queries it.
NextBoard ==
    \/ \E u \in BoardUsers, ok \in BOOLEAN :
         score_record_answer(u, 1, IF ok THEN Answer(1) ELSE 1 - Answer(1), ok)
    \/ \E limit \in 1..MaxLimit : get_leaderboard(limit)

SpecBoard == Init /\ [][NextBoard]_vars

\* ---------------------------------------------- restore specification
\* Documents load_state may return: its default (file absent, unreadable or
\* not JSON), or a JSON document with any of the keys present, a stored
\* question id possibly outside the catalog, and possibly one malformed value.
Opt(k, vals) == {EmptyMap} \cup {k :> v : v \in vals}
StoredIds == {None} \cup (1..(NQ + 1))
SnapshotKeys ==
    {"top", "active_chats", "dm_enabled_users", "current_question_id",
     "used_questions", "user_answers", "last_question_id"}
JsonDocuments ==
    {a @@ b @@ c @@ d @@ e @@ f @@ m :
        a \in Opt("active_chats", SUBSET Chats),
        b \in Opt("dm_enabled_users", {{}, Users}),
        c \in Opt("current_question_id", StoredIds),
        d \in Opt("used_questions", {{1}}),
        e \in Opt("user_answers", {1 :> 0}),
        f \in Opt("last_question_id", {1}),
        m \in Opt("malformed", {{k} : k \in SnapshotKeys})}
LoadedDocuments ==
    {DefaultState} \cup
    {doc \in JsonDocuments :
        /\ Malformed(doc) \subseteq (DOMAIN doc) \cup {"top"}
        /\ "top" \in Malformed(doc) => DOMAIN doc = {"malformed"}}

InitRestore ==
    /\ questions = 1..NQ
    /\ questionsFile = CatalogFile(questions)
    /\ closed = [on |-> FALSE, chats |-> {}]
    /\ stateFile \in LoadedDocuments
    /\ clock = Unrendered(0, 0)
    /\ InitCommon

NextRestore == Restart

SpecRestore == InitRestore /\ [][NextRestore]_vars

\* ====================================================== session properties
\* C1: in an open session, an answer from a user who already has an entry in
\* the answer map is rejected as already answered and the answer map is left
\* as it was (the first option is kept, whatever option the event carries).
C1_DuplicateRejected ==
    [][\A c \in Chats, u \in Users, q \in questions, a \in Options :
          (handle_answer(c, u, q, a) /\ active_quiz_messages[c] = q
             /\ u \in DOMAIN user_answers)
          => (ev'.reply = "already" /\ user_answers' = user_answers)]_vars

\* A duplicate answer has just been turned away while the open session holds
\* the first answer of a participant of that chat.
C1_Witness ==
    /\ ev.op = "answer"
    /\ ev.reply = "already"
    /\ active_quiz_messages[ev.chat] # None
    /\ Members(ev.chat) \cap DOMAIN user_answers # {}

\* C3: when the answer of the last participant of a chat who had not answered
\* yet is accepted, the handler delivers the explanation of the chat's active
\* question and opens the next question.
C3_EarlyClose ==
    [][\A c \in Chats, u \in Users, q \in questions, a \in Options :
          (handle_answer(c, u, q, a) /\ ev'.reply = "accepted"
             /\ u \in Members(c)
             /\ Members(c) \subseteq (DOMAIN user_answers) \cup {u})
          => (ev'.explained = q /\ ev'.posted # None)]_vars

C5_QuizCommandIdempotent ==
    [][/\ \A c \in Chats :
            (quiz_command(c) /\ (active_quiz_messages[c] # None \/ current_question # None))
            => /\ UNCHANGED quizVars
               /\ upc'.question = IF active_quiz_messages[c] # None
                                   THEN active_quiz_messages[c] ELSE current_question
       /\ \A c \in Chats :
            (quiz_command(c) /\ ~(UNCHANGED quizVars))
            => (current_question = None /\ active_quiz_messages[c] = None)
       /\ quiz_command_sent
            => (UNCHANGED quizVars /\ ev'.posted \in {None, upc.question})]_vars

\* A quiz_command has just re-presented the active question, for which an
\* answer is on record, in a chat that had no posted question.
C5_Witness ==
    /\ ev.op = "quiz_command"
    /\ ev.reply = "global"
    /\ ev.posted # None
    /\ ev.posted = current_question
    /\ user_answers # EmptyMap

\* C6: after a cancellation request that removed the quiz message there is no
\* active question, the answer map is empty and no explanation was delivered.
C6_CancelGoesIdle ==
    [][\A c \in Chats, isActive \in BOOLEAN :
          (handle_cancel_button(c, isActive) /\ ev'.reply = "deleted")
          => (current_question' = None /\ user_answers' = EmptyMap
              /\ ev'.explained = None)]_vars
\* C2: once scheduled_explanation has closed a chat's session for the active
\* question, no answer for that question from that chat is accepted until a
\* new question is drawn, also when a quiz_command was served in that chat
\* after the closing.
C2_ClosedStaysClosed ==
    [][\A c \in Chats, u \in Users, q \in questions, a \in Options :
          (handle_answer(c, u, q, a) /\ c \in closed.chats /\ q = current_question
             /\ ev.op = "quiz_command" /\ ev.reply = "global" /\ ev.chat = c)
          => ev'.reply # "accepted"]_vars

\* ========================================================= draw properties
\* Positions of the window draws, and the identifiers drawn at positions i..j.
DrawIdx == 1..Len(draws)
DrawnIds(i, j) == {draws[k].id : k \in i..j}
CatalogSize == Cardinality(questions)

\* C7: between two resets of the exhaustion set no identifier is drawn twice;
\* a reset happens only after every catalog question was drawn since the
\* previous one; from the empty set on, resets are exactly n draws apart and
\* each block of n draws is a permutation of the catalog; the set itself holds
\* the draws of the current block.
C7_BlocksArePermutations ==
    /\ \A i, j \in DrawIdx :
          (i < j /\ \A k \in (i+1)..j : ~draws[k].fresh) => draws[i].id # draws[j].id
    /\ \A i, j \in DrawIdx :
          (i < j /\ draws[i].fresh /\ draws[j].fresh
             /\ \A k \in (i+1)..(j-1) : ~draws[k].fresh)
          => (j = i + CatalogSize /\ DrawnIds(i, j-1) = questions)
    /\ \A i \in DrawIdx :
          i >= CatalogSize => \E k \in (i-CatalogSize+1)..i : draws[k].fresh
    /\ (Len(draws) > 0 /\ Len(draws) < 2 * CatalogSize) => draws[1].fresh
    /\ \A i \in DrawIdx :
          (draws[i].fresh /\ \A k \in (i+1)..Len(draws) : ~draws[k].fresh)
          => used_questions = DrawnIds(i, Len(draws))

\* The window is full, spans two resets and does not begin on one.
C7_Witness ==
    /\ CatalogSize >= 2
    /\ Len(draws) = 2 * CatalogSize
    /\ ~draws[1].fresh
    /\ \E i, j \in DrawIdx : i < j /\ draws[i].fresh /\ draws[j].fresh

\* C8 as stated: no identifier repeats within any n consecutive draws.
C8_NoRepeatInWindow ==
    \A i, j \in DrawIdx :
        (i < j /\ j - i < CatalogSize) => draws[i].id # draws[j].id

\* C8, amended: within n consecutive draws an identifier repeats only across
\* a reset of the exhaustion set, and never occurs three times.
C8_RepeatOnlyAcrossReset ==
    /\ \A i, j \in DrawIdx :
          (i < j /\ j - i < CatalogSize /\ draws[i].id = draws[j].id)
          => \E k \in (i+1)..j : draws[k].fresh
    /\ \A i, j, k \in DrawIdx :
          (i < j /\ j < k /\ k - i < CatalogSize)
          => ~(draws[i].id = draws[j].id /\ draws[j].id = draws[k].id)

\* Two of n consecutive draws returned the same identifier.
C8_Witness ==
    \E i, j \in DrawIdx :
        i < j /\ j - i < CatalogSize /\ draws[i].id = draws[j].id

\* C9: every catalog question is drawn at least once in any 2n consecutive
\* draws.
C9_AllDrawnWithin2n ==
    Len(draws) = 2 * CatalogSize => questions \subseteq DrawnIds(1, Len(draws))

\* A full window of 2n draws whose second draw starts a block, over a catalog
\* of at least two questions.
C9_Witness ==
    /\ CatalogSize >= 2
    /\ Len(draws) = 2 * CatalogSize
    /\ draws[2].fresh

\* ======================================================== score properties
\* C10: every user's correct count is at most that user's total count.
C10_CorrectAtMostTotal ==
    \A u \in DOMAIN scores : scores[u].correct <= scores[u].total

\* A user with several recorded answers, some correct and some not.
C10_Witness ==
    \E u \in DOMAIN scores :
        scores[u].total >= 2 /\ scores[u].correct >= 1
          /\ scores[u].correct < scores[u].total
\* The correctness flags of user u's rows of answer_history, oldest first.
FlagsOf(h, u) ==
    LET rows == SelectSeq(h, LAMBDA r : r.user_id = u)
    IN [i \in 1..Len(rows) |-> rows[i].correct]
UserFlags(u) == FlagsOf(answer_history, u)

\* Number of consecutive TRUE flags of f ending at position j.
RunEndingAt(f, j) == Cardinality({i \in 1..j : \A k \in i..j : f[k]})

\* Number of consecutive TRUE flags at the end of f.
TrailingRun(f) == RunEndingAt(f, Len(f))

\* Largest trailing run over all prefixes of f.
LongestRun(f) ==
    LET runs == {0} \cup {RunEndingAt(f, j) : j \in 1..Len(f)}
    IN CHOOSE m \in runs : \A x \in runs : m >= x

\* Number of TRUE flags in f.
CorrectAnswers(f) == Cardinality({i \in 1..Len(f) : f[i]})

\* Points after the flags f: one up per correct answer, one down (not below
\* zero) per incorrect answer.
RECURSIVE PenalisedScore(_)
PenalisedScore(f) ==
    IF f = << >> THEN 0
    ELSE LET before == PenalisedScore(SubSeq(f, 1, Len(f) - 1))
         IN IF f[Len(f)] THEN before + 1 ELSE Max(0, before - 1)

\* C11: each user's streak is the number of consecutive correct answers at the
\* end of that user's own answers (0 after an incorrect one), the very first
\* answer included.
C11_StreakIsTrailingRun ==
    \A u \in DOMAIN scores : scores[u].streak = TrailingRun(UserFlags(u))

\* A user whose streak of two follows an incorrect answer, and a user whose
\* only answer was correct.
C11_Witness ==
    /\ \E u \in DOMAIN scores :
          scores[u].streak = 2 /\ scores[u].total = 3
    /\ \E u \in DOMAIN scores :
          scores[u].total = 1 /\ scores[u].streak = 1

\* C12: best_streak is at least streak, never decreases, and is the largest
\* value the user's streak has taken.
C12_BestStreak ==
    [][\A u \in DOMAIN scores' :
          /\ scores'[u].best_streak >= scores'[u].streak
          /\ scores'[u].best_streak = LongestRun(FlagsOf(answer_history', u))
          /\ u \in DOMAIN scores => scores'[u].best_streak >= scores[u].best_streak]_vars

\* A user whose streak fell back to 0 after a run of two correct answers.
C12_Witness ==
    \E u \in DOMAIN scores :
        scores[u].best_streak = 2 /\ scores[u].streak = 0

\* C13 as stated: the correct count is the number of correct answers the
\* user has recorded.
C13_CorrectIsCount ==
    \A u \in DOMAIN scores : scores[u].correct = CorrectAnswers(UserFlags(u))

\* C13, amended: the correct count is a penalised score (one up per correct
\* answer, one down but not below zero per incorrect answer), hence at most
\* the number of correct answers; total counts every answer.
C13_CorrectIsPenalisedScore ==
    \A u \in DOMAIN scores :
        /\ scores[u].correct = PenalisedScore(UserFlags(u))
        /\ scores[u].correct <= CorrectAnswers(UserFlags(u))
        /\ scores[u].total = Len(UserFlags(u))

\* A user who lost a point: fewer points than correct answers.
C13_Witness ==
    \E u \in DOMAIN scores :
        scores[u].correct < CorrectAnswers(UserFlags(u))
\* The table of the leaderboard example: users 1, 2, 3 are A (correct 5 of
\* total 10), B (5 of 6) and C (7 of 20).
ExampleTable ==
    (1 :> [correct |-> 5, total |-> 10, streak |-> 0, best_streak |-> 6])
    @@ (2 :> [correct |-> 5, total |-> 6, streak |-> 5, best_streak |-> 5])
    @@ (3 :> [correct |-> 7, total |-> 20, streak |-> 7, best_streak |-> 7])

\* C14: get_leaderboard(limit) returns the first limit rows (all rows when
\* there are fewer) of the table sorted by correct descending and, among
\* equal correct counts, by total ascending; the example table gives C, B, A.
C14_LeaderboardOrder ==
    [][/\ Leaderboards(ExampleTable, 3) = {<<3, 2, 1>>}
       /\ \A limit \in 1..MaxLimit :
            get_leaderboard(limit)
            => LET r == leaders'
               IN /\ Len(r) <= limit
                  /\ Len(r) = Min(limit, Cardinality(DOMAIN scores))
                  /\ \A i \in 1..Len(r) : r[i] \in DOMAIN scores
                  /\ \A i, j \in 1..Len(r) : i < j =>
                        /\ r[i] # r[j]
                        /\ scores[r[i]].correct >= scores[r[j]].correct
                        /\ scores[r[i]].correct = scores[r[j]].correct
                             => scores[r[i]].total <= scores[r[j]].total
                  /\ \A u \in DOMAIN scores : \A i \in 1..Len(r) :
                        (\A k \in 1..Len(r) : r[k] # u)
                        => /\ scores[r[i]].correct >= scores[u].correct
                           /\ scores[r[i]].correct = scores[u].correct
                                => scores[r[i]].total <= scores[u].total]_vars

\* A query with limit 2 has returned two of the three rows of the table; the
\* two have the same correct count and are ordered by their totals.
C14_Witness ==
    /\ Cardinality(DOMAIN scores) = 3
    /\ Len(leaders) = 2
    /\ leaders \in Leaderboards(scores, 2)
    /\ scores[leaders[1]].correct = scores[leaders[2]].correct
    /\ scores[leaders[1]].total < scores[leaders[2]].total
\* ====================================================== restart properties
\* C15: restarting from the snapshot, with no handler or job in progress,
\* reproduces the active chats, the DM-enabled users, the active question,
\* the preceding question, the exhaustion set and the open answer map.
C15_SnapshotRoundTrip ==
    [][(Restart /\ upc.pc = "idle" /\ jpc.pc = "idle")
       => /\ active_chats' = active_chats
          /\ dm_enabled_users' = dm_enabled_users
          /\ current_question' = current_question
          /\ last_question' = last_question
          /\ used_questions' = used_questions
          /\ user_answers' = user_answers]_vars

\* C16: after a restart with no handler in progress, an answer for the
\* question a chat had open gets the verdict it would have got before: it is
\* accepted from a participant who had not answered and rejected as already
\* answered from one who had.
C16_SessionSurvivesRestart ==
    [][(Restart /\ upc.pc = "idle" /\ jpc.pc = "idle")
       => \A c \in Chats, u \in Users, q \in questions :
            (u \in Members(c) /\ active_quiz_messages[c] = q /\ current_question = q)
            => AnswerReply(c, u, q)' = AnswerReply(c, u, q)]_vars

\* C17: importing main.py never raises, whatever document load_state
\* returned (default, partial or with a malformed value).
C17_RestoreNeverRaises ==
    [][Restart => ev'.reply # "raised"]_vars
C19_FailedChatDropped ==
    [][scheduled_quiz
       => \A c \in active_chats :
            active_quiz_messages'[c] = current_question' \/ c \notin active_chats']_vars

\* C20: a chat whose explanation failed in the scheduled_explanation round is
\* closed all the same: no answer for that question is accepted from it.
C20_FailedExplanationStillCloses ==
    [][(explanation_sent /\ ev'.reply = "failed")
       => \A c \in Chats, u \in Users, q \in questions :
            (c = jpc.chat /\ q = jpc.question /\ u \in Members(c))
            => AnswerReply(c, u, q)' # "accepted"]_vars
\* ================================================ preceding-question property
\* A step in which a newly drawn question takes the place of an active one:
\* scheduled_quiz (main.py 439-443), the draw of quiz_command (258-262) or the
\* early-close advance of handle_answer (339-342).
ReplacesQuestion ==
    /\ current_question # None
    /\ \/ scheduled_quiz
       \/ \E c \in Chats : quiz_command(c) /\ upc'.branch = "new"
       \/ \E c \in Chats, u \in Users, q \in questions, a \in Options :
            handle_answer(c, u, q, a) /\ ev'.explained # None

\* C21: a step that replaces the active question Q makes Q the preceding
\* question; the preceding question stays Q in every step up to the next
\* replacement; and an explain_command delivers the explanation of the
\* preceding question (nothing when the transport fails).
C21_PrecedingIsReplaced ==
    [][/\ ReplacesQuestion => last_question' = current_question
       /\ (~ReplacesQuestion /\ last_question # None)
            => last_question' = last_question
       /\ \A c \in Chats :
            (explain_command(c) /\ last_question # None)
            => /\ ev'.explained \in {None, last_question}
               /\ ev'.reply = "explanation" => ev'.explained = last_question]_vars
\* ---------------------------------------------- catalog specification
\* Largest number of records in questions.json, and of option labels in a
\* record, explored by the catalog specification.
MaxRecords == 2
MaxOptions == 2

\* Records a questions.json document may hold: complete, or with one key
\* absent; any number of option labels; any stored index from -1 up to one
\* past the last label.
CatalogRecords(id) ==
    {CatalogRecord(keyset, id, nopts, answer) :
        keyset \in {RequiredKeys \cup OptionalKeys}
                     \cup {(RequiredKeys \cup OptionalKeys) \ {k} :
                              k \in RequiredKeys \cup OptionalKeys},
        nopts \in 1..MaxOptions,
        answer \in (-1)..MaxOptions}

\* Documents json.load may return for questions.json: lists of up to maxlen
\* records (the identifier of a record is its position).
RECURSIVE CatalogDocumentsOfLength(_)
CatalogDocumentsOfLength(n) ==
    IF n = 0 THEN {<< >>}
    ELSE {Append(doc, r) : doc \in CatalogDocumentsOfLength(n - 1),
                           r \in CatalogRecords(n)}
CatalogDocuments(maxlen) ==
    UNION {CatalogDocumentsOfLength(n) : n \in 0..maxlen}

\* State inside QuizManager.__init__ right before _load_questions (quiz.py 20-26).
InitCatalog ==
    /\ questionsFile \in CatalogDocuments(MaxRecords)
    /\ questions = {}
    /\ closed = [on |-> FALSE, chats |-> {}]
    /\ stateFile = DefaultState
    /\ clock = Unrendered(0, 0)
    /\ InitCommon

\* _load_questions (quiz.py 29-47), called once from QuizManager.__init__ at
\* the import of main.py (main.py 30): an exception ends the process.
load_questions ==
    /\ ev.op = "init"
    /\ IF load_raises(questionsFile)
       THEN /\ questions' = {}
            /\ ev' = Aborted(Ev("load", None, "raised", None, None, NoCall))
       ELSE /\ questions' = 1..Len(questionsFile)
            /\ ev' = Ev("load", None, "loaded", None, None, NoCall)
    /\ UNCHANGED <<clock, questionsFile, quizVars, last_question, active_chats,
                   dm_enabled_users, active_quiz_messages, stateFile, scoreVars,
                   upc, jpc, closed, draws, leaders>>

\* get_random_question (quiz.py 95-107) on the loaded catalog:
\* random.choice raises IndexError on an empty list.
get_random_question_loaded ==
    /\ ev.op \in {"load", "draw"}
    /\ ~(ev.op = "load" /\ ev.reply = "raised")
    /\ IF DrawPool(questions, used_questions) = {}
       THEN /\ used_questions' = {}
            /\ ev' = Aborted(Ev("draw", None, "raised", None, None, NoCall))
            /\ UNCHANGED <<current_question, user_answers>>
       ELSE \E q \in DrawPool(questions, used_questions) :
              /\ used_questions' = UsedAfterDraw(questions, used_questions, q)
              /\ current_question' = q
              /\ user_answers' = EmptyMap
              /\ ev' = Ev("draw", None, "drawn", None, None, NoCall)
    /\ UNCHANGED <<clock, questionsFile, questions, last_question, active_chats,
                   dm_enabled_users, active_quiz_messages, stateFile, scoreVars,
                   upc, jpc, closed, draws, leaders>>

NextCatalog == load_questions \/ get_random_question_loaded

SpecCatalog == InitCatalog /\ [][NextCatalog]_vars

\* ====================================================== catalog properties
\* C22: loading fails whenever some record lacks a required key or stores a
\* correct-option index outside its option list; a catalog that loaded is
\* non-empty and each of its questions has 0 <= answer < len(options); and a
\* draw from a loaded catalog never raises.
C22_LoadValidates ==
    [][/\ (load_questions
             /\ \E i \in 1..Len(questionsFile) :
                  \/ ~(RequiredKeys \subseteq DOMAIN questionsFile[i])
                  \/ ~(0 <= questionsFile[i].answer
                         /\ questionsFile[i].answer < questionsFile[i].options))
          => ev'.reply = "raised"
       /\ (load_questions /\ ev'.reply = "loaded")
          => /\ questions' # {}
             /\ \A i \in questions' :
                  0 <= questionsFile[i].answer
                    /\ questionsFile[i].answer < questionsFile[i].options
       /\ get_random_question_loaded => ev'.reply # "raised"]_vars

\* ======================================================= answer properties
\* C23: the correctness flag of an accepted answer, as passed on to the score
\* ledger, says whether the chosen option is the correct option of the
\* question the answer event carries (the chat's posted question).
C23_FlagMatchesAnsweredQuestion ==
    [][\A c \in Chats, u \in Users, q \in questions, a \in Options :
          (handle_answer(c, u, q, a) /\ ev'.reply = "accepted")
          => /\ ev'.scored.question_id = q
             /\ ev'.scored.answer = a
             /\ ev'.scored.correct = (a = Answer(q))]_vars

\* C25: the already-answered check and the insertion into the answer map
\* happen in one step of the answer handler, which no other handler or job
\* interleaves: an answer for the chat's open question is accepted exactly
\* when its user has no entry in the answer map, an accepted answer is in the
\* map when the step ends and makes exactly one score-ledger call, and a
\* rejected answer changes neither. So of two answer events of one user for
\* one session, in either order, exactly one is accepted.
C25_CheckAndInsertAtomic ==
    [][\A c \in Chats, u \in Users, q \in questions, a \in Options :
          handle_answer(c, u, q, a)
          => /\ upc.pc = "idle" /\ upc' = upc
             /\ ev'.reply = "accepted"
                  <=> (active_quiz_messages[c] = q /\ u \notin DOMAIN user_answers)
             /\ ev'.reply = "accepted"
                  => /\ u \in DOMAIN user_answers'
                     /\ user_answers'[u] = a
                     /\ \A x \in DOMAIN user_answers :
                          x \in DOMAIN user_answers' /\ user_answers'[x] = user_answers[x]
                     /\ ev'.scored.user_id = u
                     /\ ev'.scored.question_id = q
                     /\ ev'.scored.answer = a
             /\ ev'.reply # "accepted"
                  => (user_answers' = user_answers /\ ev'.scored = NoCall)]_vars

\* The second answer event of a user for the open session of the active
\* question has just been rejected without a ledger call; the first answer
\* of a participant of that chat, an incorrect one, is on record.
C25_Witness ==
    /\ ev.op = "answer"
    /\ ev.reply = "already"
    /\ ev.scored = NoCall
    /\ active_quiz_messages[ev.chat] = current_question
    /\ \E u \in Members(ev.chat) \cap DOMAIN user_answers :
         user_answers[u] # Answer(current_question)

\* ================================================== write-through property
\* C26: once a state-changing event has completed (registration by start, an
\* open by quiz_command or scheduled_quiz, an accepted answer, a close by
\* scheduled_explanation, a cancellation) and no handler or job is in
\* progress, the state file's current_question_id is the id of the active
\* question (null when there is none) and the answer map and the exhaustion
\* set it stores are the ones in memory.
C26_WriteThrough ==
    (/\ upc.pc = "idle"
     /\ jpc.pc = "idle"
     /\ \/ ev.op \in {"start", "quiz_command", "scheduled_quiz"}
        \/ ev.op = "answer" /\ ev.reply = "accepted"
        \/ ev.op = "scheduled_explanation" /\ ev.reply = "explanation"
        \/ ev.op = "cancel" /\ ev.reply = "deleted")
    => /\ Get(stateFile, "current_question_id", None) = current_question
       /\ Get(stateFile, "user_answers", EmptyMap) = user_answers
       /\ Get(stateFile, "used_questions", {}) = used_questions

\* ======================================================== close properties
\* C27: when a session is closed, by scheduled_explanation delivering the
\* explanation of the active question to the last chat that had it open, or
\* by the early close of the answer handler, the answer map is empty
\* afterwards.
C27_ClosedMapEmpty ==
    [][/\ (/\ explanation_sent
           /\ ev'.reply = "explanation"
           /\ jpc.question = current_question
           /\ \A c \in Chats : active_quiz_messages'[c] = None)
          => user_answers' = EmptyMap
       /\ \A c \in Chats, u \in Users, q \in questions, a \in Options :
            (handle_answer(c, u, q, a) /\ ev'.explained # None)
            => user_answers' = EmptyMap]_vars

\* send_explanation (main.py 505-510): the statistics line of the explanation
\* of question q, computed from the answer map ua as it is when the
\* explanation is built (no line when total = 0).
ExplanationStats(ua, q) ==
    [total |-> Cardinality(DOMAIN ua),
     correct_count |-> Cardinality({u \in DOMAIN ua : ua[u] = Answer(q)})]

\* The statistics of the explanation of q when the answers in ua other than
\* that of user u are left out.
StatsWithout(ua, q, u) ==
    ExplanationStats([x \in (DOMAIN ua) \ {u} |-> ua[x]], q)

\* C28: the statistics of an explanation count only answers recorded for the
\* question being explained. Stated for the answer the preceding handler step
\* accepted: when the explanation built by explain_command, or by
\* scheduled_explanation for its first chat, counts that answer, the answer
\* event carried the id of the explained question.
C28_StatsOfExplainedQuestion ==
    [][\A e \in questions :
          (/\ \/ \E c \in Chats : explain_command(c) /\ ev'.explained = e
              \/ scheduled_explanation /\ jpc'.pc = "send" /\ jpc'.question = e
           /\ ev.op = "answer"
           /\ ev.reply = "accepted"
           /\ ExplanationStats(user_answers, e).total
                > StatsWithout(user_answers, e, ev.scored.user_id).total)
          => ev.scored.question_id = e]_vars

\* C29: an answer event arriving in a chat that has no open posted question,
\* or carrying a question id other than that of the chat's posted question, is
\* rejected as ended; the answer map, the active question, the posted
\* questions and the score ledger stay as they were and no ledger call is
\* made.
C29_StaleAnswerRejected ==
    [][\A c \in Chats, u \in Users, q \in questions, a \in Options :
          (handle_answer(c, u, q, a)
             /\ (active_quiz_messages[c] = None \/ active_quiz_messages[c] # q))
          => /\ ev'.reply = "ended"
             /\ ev'.scored = NoCall
             /\ UNCHANGED <<quizVars, last_question, active_quiz_messages,
                            scoreVars, stateFile>>]_vars

\* An answer event has just been rejected as ended in a chat that has another
\* question posted, while the answer map holds an answer.
C29_Witness ==
    /\ ev.op = "answer"
    /\ ev.reply = "ended"
    /\ active_quiz_messages[ev.chat] # None
    /\ user_answers # EmptyMap

\* ============================================ persistence-failure property
\* C30: a save_state call that raises does not end the handler or job that
\* made it: the state in memory stays as advanced (the drawn question is the
\* active one, the accepted answer is in the answer map) and the rest of the
\* operation runs: scheduled_quiz goes on to post the drawn question to the
\* active chats, an accepted answer goes on to its early-close check and its
\* feedback.
C30_SaveFailureDoesNotAbort ==
    [][/\ (scheduled_quiz /\ save_state_raises(6))
          => /\ current_question' \in questions
             /\ current_question' \in used_questions'
             /\ ~ev'.aborted
       /\ \A c \in Chats, u \in Users, q \in questions, a \in Options :
            (handle_answer(c, u, q, a) /\ ev'.reply = "accepted"
               /\ save_state_raises(5))
            => /\ u \in DOMAIN user_answers'
               /\ ~ev'.aborted]_vars

\* ==================================================== broadcast consistency
\* C31: every chat with an open posted question (an entry in
\* active_quiz_messages) shows the one shared active question,
\* quiz_manager.current_question.
C31_PostedIsActiveQuestion ==
    \A c \in Chats :
        active_quiz_messages[c] # None => active_quiz_messages[c] = current_question

\* ========================================================= ledger property
\* A step that ends the session of the drawn question: a draw replaces it
\* (scheduled_quiz, the draw of quiz_command, the early-close advance of
\* handle_answer: quiz.py 105-106) or a restart drops it (main.py 43-55).
SessionEnds ==
    \/ scheduled_quiz
    \/ \E c \in Chats : quiz_command(c) /\ upc'.branch = "new"
    \/ \E c \in Chats, u \in Users, q \in questions, a \in Options :
         handle_answer(c, u, q, a) /\ ev'.explained # None
    \/ Restart

\* C32: within one session each user causes at most one score-ledger call.
\* A call is made only by an answer step, for a user who had no entry in the
\* answer map and whose answer the step inserted; only the answer handler
\* makes a call; and an entry leaves the answer map only in a step that ends
\* the session. (Each call appends one history row and adds 1 to the user's
\* total: C33.)
C32_OneLedgerCallPerSession ==
    [][/\ \A c \in Chats, u \in Users, q \in questions, a \in Options :
            (handle_answer(c, u, q, a) /\ ev'.scored # NoCall)
            => /\ ev'.scored.user_id = u
               /\ u \notin DOMAIN user_answers
               /\ u \in DOMAIN user_answers'
               /\ user_answers'[u] = ev'.scored.answer
       /\ (ev' # ev /\ ev'.scored # NoCall) => ev'.op = "answer"
       /\ (\E u \in DOMAIN user_answers : u \notin DOMAIN user_answers')
            => SessionEnds]_vars

\* A ledger call has just been made for the second participant to answer in
\* a session that replaced an earlier question.
C32_Witness ==
    /\ ev.op = "answer"
    /\ ev.scored # NoCall
    /\ ev.scored.user_id \in DOMAIN user_answers
    /\ Cardinality(DOMAIN user_answers) = 2
    /\ last_question # None
    /\ last_question # current_question

\* ============================================== ledger-consistency property
\* The rows of the answer_history table h that belong to user u.
HistoryRowsOf(h, u) == {i \in 1..Len(h) : h[i].user_id = u}

\* C33: after any sequence of record_answer calls a user has a row in scores
\* (what get_user_stats returns, score.py 99-116) exactly when answer_history
\* holds a row of that user, and the total of the scores row is the number of
\* those history rows.
C33_TotalIsHistoryCount ==
    /\ \A u \in Users :
          u \in DOMAIN scores <=> HistoryRowsOf(answer_history, u) # {}
    /\ \A u \in DOMAIN scores :
          /\ u \in Users
          /\ scores[u].total = Cardinality(HistoryRowsOf(answer_history, u))

\* One user has three answers on record, correct and incorrect ones among
\* them, while another has none and no scores row.
C33_Witness ==
    /\ \E u \in DOMAIN scores :
          /\ scores[u].total = 3
          /\ \E i, j \in HistoryRowsOf(answer_history, u) :
                answer_history[i].correct /\ ~answer_history[j].correct
    /\ \E v \in Users : v \notin DOMAIN scores

\* ================================================== clock specification
\* persistence.get_next_quiz_time / format_time_until_explanation as
\* functions of the KST wall clock (hour, minute) that datetime.now returns.
HoursPerDay == 24
MinutesPerHour == 60
\* quiz_times = [6, 18] (persistence.py 52)
quiz_times == <<6, 18>>
\* total_mins = hours * 60 + mins - 10 (persistence.py 81)
ExplanationLead == 10
\* run_daily times of scheduled_explanation in KST (main.py 612-618).
explanation_times == {<<5, 50>>, <<17, 50>>}

\* get_next_quiz_time (persistence.py 44-73) at current_hour:current_min;
\* returns <<hours_left, mins_left>>.  The literal 6 of "tomorrow 06:00"
\* (persistence.py 68, 71) is quiz_times[1].
get_next_quiz_time(current_hour, current_min) ==
    LET hit == {i \in 1..Len(quiz_times) :
                   \/ current_hour < quiz_times[i]
                   \/ (current_hour = quiz_times[i] /\ current_min = 0)}
    IN  IF hit # {}
        THEN LET qt == quiz_times[CHOOSE i \in hit : \A j \in hit : i <= j]
             IN  IF current_min = 0
                 THEN <<qt - current_hour, 0>>
                 ELSE <<qt - current_hour - (IF current_min > 0 THEN 1 ELSE 0),
                        (MinutesPerHour - current_min) % MinutesPerHour>>
        ELSE IF current_min = 0
             THEN <<HoursPerDay - current_hour + quiz_times[1], 0>>
             ELSE <<HoursPerDay - current_hour + quiz_times[1] - 1,
                    (MinutesPerHour - current_min) % MinutesPerHour>>

\* The text format_time_until_explanation returns (persistence.py 76-91):
\* <<h, m>> stands for "h시간 m분" and <<m>> for "m분".
format_time_until_explanation(current_hour, current_min) ==
    LET left == get_next_quiz_time(current_hour, current_min)
        t0 == left[1] * MinutesPerHour + left[2] - ExplanationLead
        total_mins == IF t0 < 0 THEN t0 + HoursPerDay * MinutesPerHour ELSE t0
        hours == total_mins \div MinutesPerHour
        mins == total_mins % MinutesPerHour
    IN  IF hours > 0 THEN <<hours, mins>> ELSE <<mins>>

\* The duration a rendered text reads as, in minutes.
ShownMinutes(time_str) ==
    IF Len(time_str) = 2 THEN time_str[1] * MinutesPerHour + time_str[2]
    ELSE time_str[1]

\* Minutes from hour:minute to the next time the job queue runs
\* scheduled_explanation (main.py 612-618).
MinutesUntilExplanation(hour, minute) ==
    LET day == HoursPerDay * MinutesPerHour
        now == hour * MinutesPerHour + minute
        waits == {((e[1] * MinutesPerHour + e[2]) - now + day) % day : e \in explanation_times}
    IN  CHOOSE w \in waits : \A x \in waits : w <= x

InitClock ==
    /\ questions = 1..NQ
    /\ questionsFile = CatalogFile(questions)
    /\ closed = [on |-> FALSE, chats |-> {}]
    /\ stateFile = DefaultState
    /\ clock \in {Unrendered(h, m) : h \in 0..(HoursPerDay - 1), m \in 0..(MinutesPerHour - 1)}
    /\ InitCommon

\* start / send_quiz rendering the "time until explanation" line
\* (main.py 92, 210).
render_time_until_explanation ==
    /\ clock.time_str = << >>
    /\ clock' = [clock EXCEPT !.time_str = format_time_until_explanation(clock.hour, clock.minute)]
    /\ UNCHANGED <<questionsFile, questions, quizVars, last_question, active_chats,
                   dm_enabled_users, active_quiz_messages, stateFile, scoreVars,
                   upc, jpc, ev, closed, draws, leaders>>

NextClock == render_time_until_explanation

SpecClock == InitClock /\ [][NextClock]_vars

\* C34: at every time of day the duration format_time_until_explanation shows
\* is the time that remains until the next scheduled explanation (the next
\* 05:50 or 17:50 KST).
C34_ShownIsTimeToExplanation ==
    clock.time_str # << >>
        => ShownMinutes(clock.time_str) = MinutesUntilExplanation(clock.hour, clock.minute)
====
